---------------------------- MODULE Spec2Model ----------------------------
(***************************************************************************)
(* A model of the Enigma simulator of src/src/enigma.rs: the rotating      *)
(* substitution wheel (EnigmaWheel) and the five-wheel machine             *)
(* (EnigmaMachine).                                                        *)
(*                                                                         *)
(* Characters are Unicode scalar values (integers), strings are sequences  *)
(* of characters.  A call that can abort (a Rust panic) yields an Option:  *)
(* Some(v) when it returns v, None when it panics.                         *)
(***************************************************************************)
EXTENDS Integers, Sequences, FiniteSets, TLC

VARIABLES
    overflow_checks, \* build profile: TRUE when u16 +/- overflow panics (debug), FALSE when it wraps (release)
    machine,         \* None, or Some(EnigmaMachine): the five wheels
    call,            \* record of the last transform_message call since the triggers were set
    calls,           \* number of transform_message calls made so far
    wheel,           \* None, or Some(EnigmaWheel): a wheel used on its own
    winput,          \* the message and the position the calls on the standalone wheel are made with
    wcall,           \* record of the last call made on the standalone wheel
    rotations        \* rotate() calls on the standalone wheel since its position was last set

vars == <<overflow_checks, machine, call, calls, wheel, winput, wcall, rotations>>

-----------------------------------------------------------------------------
(* Option, and Rust's integer arithmetic on u16                            *)

Some(v) == <<v>>
None == <<>>

\* o.and_then(F)
Bind(o, F(_)) == IF o = None THEN None ELSE F(o[1])

\* let v = e; F(v)
With(e, F(_)) == F(e)

U16_RANGE == 65536

\* a + b on u16: panics under overflow checks, wraps otherwise
u16_add(a, b, oc) ==
    IF a + b < U16_RANGE THEN Some(a + b)
    ELSE IF oc THEN None ELSE Some((a + b) % U16_RANGE)

\* a - b on u16: panics under overflow checks, wraps otherwise
u16_sub(a, b, oc) ==
    IF a >= b THEN Some(a - b)
    ELSE IF oc THEN None ELSE Some((a - b) % U16_RANGE)

\* a.checked_add(b), a.checked_sub(b), a.checked_rem(b)
checked_add(a, b) == IF a + b < U16_RANGE THEN Some(a + b) ELSE None
checked_sub(a, b) == IF a >= b THEN Some(a - b) ELSE None
checked_rem(a, b) == IF b = 0 THEN None ELSE Some(a % b)

\* char::from_u32(n): None for a surrogate or a value past U+10FFFF
from_u32(n) ==
    IF (n >= 55296 /\ n <= 57343) \/ n > 1114111 THEN None ELSE Some(n)

\* str::encode_utf16 of one character: one unit, or a surrogate pair
utf16_units(c) ==
    IF c < U16_RANGE THEN <<c>>
    ELSE <<55296 + ((c - U16_RANGE) \div 1024), 56320 + ((c - U16_RANGE) % 1024)>>

RECURSIVE encode_utf16(_)
encode_utf16(message) ==
    IF message = <<>> THEN <<>>
    ELSE utf16_units(Head(message)) \o encode_utf16(Tail(message))

\* cipher.chars().nth(index)
nth(cipher, index) ==
    IF index < Len(cipher) THEN Some(cipher[index + 1]) ELSE None

\* char::len_utf8: the number of bytes of the character in a str
len_utf8(c) ==
    IF c < 128 THEN 1 ELSE IF c < 2048 THEN 2 ELSE IF c < U16_RANGE THEN 3 ELSE 4

\* the number of bytes of the first n characters of a str
len_bytes(cipher, n) ==
    IF \A i \in 1..n : len_utf8(cipher[i]) = 1 THEN n
    ELSE LET wide(w) == Cardinality({i \in 1..n : len_utf8(cipher[i]) = w})
         IN  wide(1) + 2 * wide(2) + 3 * wide(3) + 4 * wide(4)

\* cipher.find(chr): the byte offset of the first occurrence of chr in the str
find(cipher, chr) ==
    IF \A i \in 1..Len(cipher) : cipher[i] # chr THEN None
    ELSE With(CHOOSE i \in 1..Len(cipher) :
                  cipher[i] = chr /\ \A j \in 1..(i - 1) : cipher[j] # chr,
              LAMBDA first : Some(len_bytes(cipher, first - 1)))

\* n as u16: the low 16 bits
as_u16(n) == n % U16_RANGE

\* is_upper with the lower bound off by one: '@' taken for a letter
is_upper_from_at(chr) == chr >= 64 /\ chr < 91

\* chr > '@' && chr < '['   (code > 64 && code < 91)
is_upper(chr) == chr > 64 /\ chr < 91

-----------------------------------------------------------------------------
(* EnigmaWheel                                                             *)

EnigmaWheel_new(new_cipher, new_offset, new_setting) ==
    [cipher         |-> new_cipher,
     rotor_position |-> new_offset % 26,
     ring_setting   |-> new_setting % 26,
     triggers       |-> <<>>]

\* encipher_unit without the wrap after the ring setting is added
encipher_unit_no_wrap(self, unit, oc) ==
    IF is_upper(unit)
    THEN Bind(checked_sub(unit, 65), LAMBDA c0 :
         Bind(u16_sub(26, self.rotor_position, oc), LAMBDA back :
         Bind(checked_add(c0, back), LAMBDA c1 :
         Bind(checked_rem(c1, 26), LAMBDA code :
         Bind(nth(self.cipher, code), LAMBDA w :
         Bind(u16_add(as_u16(w), self.ring_setting, oc), LAMBDA enciphered_code :
              from_u32(enciphered_code)))))))
    ELSE from_u32(unit)

\* encipher_unit with the ring-setting wrap off by one: 'Z' is wrapped to '@'
encipher_unit_wrap_at_Z(self, unit, oc) ==
    IF is_upper(unit)
    THEN Bind(checked_sub(unit, 65), LAMBDA c0 :
         Bind(u16_sub(26, self.rotor_position, oc), LAMBDA back :
         Bind(checked_add(c0, back), LAMBDA c1 :
         Bind(checked_rem(c1, 26), LAMBDA code :
         Bind(nth(self.cipher, code), LAMBDA w :
         Bind(u16_add(as_u16(w), self.ring_setting, oc), LAMBDA e :
         Bind(IF e >= 90 THEN u16_sub(e, 26, oc) ELSE Some(e), LAMBDA enciphered_code :
              from_u32(enciphered_code))))))))
    ELSE from_u32(unit)

\* the body of encipher's loop for one UTF-16 unit
encipher_unit(self, unit, oc) ==
    IF is_upper(unit)
    THEN Bind(checked_sub(unit, 65), LAMBDA c0 :
         Bind(u16_sub(26, self.rotor_position, oc), LAMBDA back :
         Bind(checked_add(c0, back), LAMBDA c1 :
         Bind(checked_rem(c1, 26), LAMBDA code :
         Bind(nth(self.cipher, code), LAMBDA w :
         Bind(u16_add(as_u16(w), self.ring_setting, oc), LAMBDA e :
         Bind(IF e > 90 THEN u16_sub(e, 26, oc) ELSE Some(e), LAMBDA enciphered_code :
              from_u32(enciphered_code))))))))
    ELSE from_u32(unit)

RECURSIVE encipher_units(_, _, _)
encipher_units(self, units, oc) ==
    IF units = <<>> THEN Some(<<>>)
    ELSE Bind(encipher_unit(self, Head(units), oc), LAMBDA c :
         Bind(encipher_units(self, Tail(units), oc), LAMBDA rest :
              Some(<<c>> \o rest)))

encipher(self, message, oc) == encipher_units(self, encode_utf16(message), oc)

\* decipher_char with the ring-setting wrap off by one: 'A' is wrapped to '['
decipher_char_wrap_at_A(self, chr) ==
    IF is_upper(chr)
    THEN Bind(IF chr >= self.ring_setting THEN Some(chr - self.ring_setting) ELSE None, LAMBDA c0 :
         Bind(Some(IF c0 <= 65 THEN c0 + 26 ELSE c0), LAMBDA code :
         Bind(from_u32(code), LAMBDA c :
         Bind(find(self.cipher, c), LAMBDA d0 :
         Bind(checked_add(as_u16(d0), self.rotor_position), LAMBDA d1 :
         Bind(checked_rem(d1, 26), LAMBDA d2 :
         Bind(checked_add(d2, 65), LAMBDA decoded :
              from_u32(decoded))))))))
    ELSE Some(chr)

\* the body of decipher's loop for one character
decipher_char(self, chr) ==
    IF is_upper(chr)
    THEN Bind(IF chr >= self.ring_setting THEN Some(chr - self.ring_setting) ELSE None, LAMBDA c0 :
         Bind(Some(IF c0 < 65 THEN c0 + 26 ELSE c0), LAMBDA code :
         Bind(from_u32(code), LAMBDA c :
         Bind(find(self.cipher, c), LAMBDA d0 :
         Bind(checked_add(as_u16(d0), self.rotor_position), LAMBDA d1 :
         Bind(checked_rem(d1, 26), LAMBDA d2 :
         Bind(checked_add(d2, 65), LAMBDA decoded :
              from_u32(decoded))))))))
    ELSE Some(chr)

RECURSIVE decipher(_, _)
decipher(self, message) ==
    IF message = <<>> THEN Some(<<>>)
    ELSE Bind(decipher_char(self, Head(message)), LAMBDA c :
         Bind(decipher(self, Tail(message)), LAMBDA rest :
              Some(<<c>> \o rest)))

\* rotate that looks for the position it leaves among the triggers
rotate_old_position(self) ==
    With((self.rotor_position + 1) % 26, LAMBDA position :
        [wheel  |-> [self EXCEPT !.rotor_position = position],
         result |-> \E i \in 1..Len(self.triggers) : self.triggers[i] = self.rotor_position])

rotate(self) ==
    With((self.rotor_position + 1) % 26, LAMBDA position :
        [wheel  |-> [self EXCEPT !.rotor_position = position],
         result |-> \E i \in 1..Len(self.triggers) : self.triggers[i] = position])

\* set_rotor_position that stores its argument as given
set_rotor_position_unreduced(self, rotor_position) ==
    [self EXCEPT !.rotor_position = rotor_position]

set_rotor_position(self, rotor_position) ==
    [self EXCEPT !.rotor_position = rotor_position % 26]

\* set_triggers that adds the new triggers to those configured before
set_triggers_additive(self, triggers) ==
    [self EXCEPT !.triggers = @ \o triggers]

set_triggers(self, triggers) ==
    [self EXCEPT !.triggers = triggers]

\* right_to_left that reads the wiring one contact further on
right_to_left_next_contact(self, position, oc) ==
    Bind(u16_add(position, self.rotor_position, oc), LAMBDA s :
    Bind(checked_rem(s, 26), LAMBDA index :
    Bind(nth(self.cipher, index), LAMBDA chr :
    Bind(u16_sub(26, self.rotor_position, oc), LAMBDA back :
    Bind(u16_sub(as_u16(chr), 64, oc), LAMBDA rank :
    Bind(u16_add(back, rank, oc), LAMBDA out :
         checked_rem(out, 26)))))))

right_to_left(self, position, oc) ==
    Bind(u16_add(position, self.rotor_position, oc), LAMBDA s :
    Bind(u16_sub(s, 1, oc), LAMBDA d :
    Bind(checked_rem(d, 26), LAMBDA index :
    Bind(nth(self.cipher, index), LAMBDA chr :
    Bind(u16_sub(26, self.rotor_position, oc), LAMBDA back :
    Bind(u16_sub(as_u16(chr), 64, oc), LAMBDA rank :
    Bind(u16_add(back, rank, oc), LAMBDA out :
         checked_rem(out, 26))))))))

\* left_to_right that shifts the value it returns by the ring setting
left_to_right_ring_shift(self, position, oc) ==
    Bind(u16_add(position, self.rotor_position, oc), LAMBDA s :
    Bind(checked_rem(s, 26), LAMBDA index :
    Bind(from_u32(index + 64), LAMBDA chr :
    Bind(find(self.cipher, chr), LAMBDA decoded :
    Bind(u16_sub(26, self.rotor_position, oc), LAMBDA back :
    Bind(u16_add(as_u16(decoded), 1 + self.ring_setting, oc), LAMBDA d1 :
    Bind(u16_add(back, d1, oc), LAMBDA out :
         checked_rem(out, 26))))))))

left_to_right(self, position, oc) ==
    Bind(u16_add(position, self.rotor_position, oc), LAMBDA s :
    Bind(checked_rem(s, 26), LAMBDA index :
    Bind(from_u32(index + 64), LAMBDA chr :
    Bind(find(self.cipher, chr), LAMBDA decoded :
    Bind(u16_sub(26, self.rotor_position, oc), LAMBDA back :
    Bind(u16_add(as_u16(decoded), 1, oc), LAMBDA d1 :
    Bind(u16_add(back, d1, oc), LAMBDA out :
         checked_rem(out, 26))))))))

-----------------------------------------------------------------------------
(* CipherWheel: the static substitution wheel of src/src/lib.rs (with an   *)
(* offset) and of src/src/cipher.rs (without)                              *)

CipherWheel_new(new_cipher, new_offset) ==
    [cipher |-> new_cipher,
     offset |-> new_offset % 26]

\* lib.rs: the body of encipher's loop for one UTF-16 unit
CipherWheel_encipher_unit(self, unit) ==
    IF is_upper(unit)
    THEN Bind(checked_sub(unit, 65), LAMBDA c0 :
         Bind(checked_add(c0, self.offset), LAMBDA c1 :
         Bind(checked_rem(c1, 26), LAMBDA code :
              nth(self.cipher, code))))
    ELSE from_u32(unit)

RECURSIVE CipherWheel_encipher_units(_, _)
CipherWheel_encipher_units(self, units) ==
    IF units = <<>> THEN Some(<<>>)
    ELSE Bind(CipherWheel_encipher_unit(self, Head(units)), LAMBDA c :
         Bind(CipherWheel_encipher_units(self, Tail(units)), LAMBDA rest :
              Some(<<c>> \o rest)))

CipherWheel_encipher(self, message) ==
    CipherWheel_encipher_units(self, encode_utf16(message))

\* lib.rs: the body of decipher's loop for one character
CipherWheel_decipher_char(self, chr) ==
    IF is_upper(chr)
    THEN Bind(find(self.cipher, chr), LAMBDA at :
         Bind(Some(as_u16(at)), LAMBDA d0 :
         Bind(IF d0 >= self.offset
              THEN checked_sub(d0, self.offset)
              ELSE Bind(checked_add(d0, 26), LAMBDA d26 : checked_sub(d26, self.offset)),
              LAMBDA d1 :
         Bind(checked_add(d1, 65), LAMBDA decoded :
              from_u32(decoded)))))
    ELSE Some(chr)

RECURSIVE CipherWheel_decipher(_, _)
CipherWheel_decipher(self, message) ==
    IF message = <<>> THEN Some(<<>>)
    ELSE Bind(CipherWheel_decipher_char(self, Head(message)), LAMBDA c :
         Bind(CipherWheel_decipher(self, Tail(message)), LAMBDA rest :
              Some(<<c>> \o rest)))

\* cipher.rs: a CipherWheel has a wiring and no offset
PlainCipherWheel(cipher) == [cipher |-> cipher]

\* cipher.rs: the body of encipher's loop for one UTF-16 unit
PlainCipherWheel_encipher_unit(self, unit) ==
    IF is_upper(unit)
    THEN Bind(checked_sub(unit, 65), LAMBDA code : nth(self.cipher, code))
    ELSE from_u32(unit)

RECURSIVE PlainCipherWheel_encipher_units(_, _)
PlainCipherWheel_encipher_units(self, units) ==
    IF units = <<>> THEN Some(<<>>)
    ELSE Bind(PlainCipherWheel_encipher_unit(self, Head(units)), LAMBDA c :
         Bind(PlainCipherWheel_encipher_units(self, Tail(units)), LAMBDA rest :
              Some(<<c>> \o rest)))

PlainCipherWheel_encipher(self, message) ==
    PlainCipherWheel_encipher_units(self, encode_utf16(message))

\* cipher.rs: the body of decipher's loop for one character
PlainCipherWheel_decipher_char(self, chr) ==
    IF is_upper(chr)
    THEN Bind(find(self.cipher, chr), LAMBDA d0 :
         Bind(checked_add(as_u16(d0), 65), LAMBDA decoded :
              from_u32(decoded)))
    ELSE Some(chr)

RECURSIVE PlainCipherWheel_decipher(_, _)
PlainCipherWheel_decipher(self, message) ==
    IF message = <<>> THEN Some(<<>>)
    ELSE Bind(PlainCipherWheel_decipher_char(self, Head(message)), LAMBDA c :
         Bind(PlainCipherWheel_decipher(self, Tail(message)), LAMBDA rest :
              Some(<<c>> \o rest)))

-----------------------------------------------------------------------------
(* EnigmaMachine                                                           *)

EnigmaMachine_new(pb_cipher, rw_cipher, rw_offset, rw_setting, mw_cipher, mw_offset, mw_setting, lw_cipher, lw_offset, lw_setting, rf_cipher) ==
    [plugboard    |-> EnigmaWheel_new(pb_cipher, 0, 0),
     right_wheel  |-> EnigmaWheel_new(rw_cipher, rw_offset, rw_setting),
     middle_wheel |-> EnigmaWheel_new(mw_cipher, mw_offset, mw_setting),
     left_wheel   |-> EnigmaWheel_new(lw_cipher, lw_offset, lw_setting),
     reflector    |-> EnigmaWheel_new(rf_cipher, 0, 0)]

\* set_triggers one wheel off: the lists go to the plugboard, right and middle wheels
EnigmaMachine_set_triggers_one_off(self, rw_triggers, mw_triggers, lw_triggers) ==
    [self EXCEPT !.plugboard    = set_triggers(@, rw_triggers),
                 !.right_wheel  = set_triggers(@, mw_triggers),
                 !.middle_wheel = set_triggers(@, lw_triggers)]

EnigmaMachine_set_triggers(self, rw_triggers, mw_triggers, lw_triggers) ==
    [self EXCEPT !.right_wheel  = set_triggers(@, rw_triggers),
                 !.middle_wheel = set_triggers(@, mw_triggers),
                 !.left_wheel   = set_triggers(@, lw_triggers)]

\* the calls impl EnigmaMachine offers (the fields of the machine are private)
EnigmaMachine_methods == {"new", "set_triggers", "transform_message"}

\* the rotor positions of the three rotating wheels, right to left
positions(self) ==
    <<self.right_wheel.rotor_position,
      self.middle_wheel.rotor_position,
      self.left_wheel.rotor_position>>

\* step_wheels in which the middle wheel rotates on every letter
step_wheels_middle_always(self) ==
    With(rotate(self.right_wheel), LAMBDA r :
    With(rotate(self.middle_wheel), LAMBDA m :
    With(rotate(self.left_wheel), LAMBDA l :
        [self EXCEPT !.right_wheel  = r.wheel,
                     !.middle_wheel = m.wheel,
                     !.left_wheel   = IF m.result THEN l.wheel ELSE @])))

\* if right.rotate() { if middle.rotate() { left.rotate(); } }
step_wheels(self) ==
    With(rotate(self.right_wheel), LAMBDA r :
    With(rotate(self.middle_wheel), LAMBDA m :
    With(rotate(self.left_wheel), LAMBDA l :
        [self EXCEPT !.right_wheel  = r.wheel,
                     !.middle_wheel = IF r.result THEN m.wheel ELSE @,
                     !.left_wheel   = IF r.result /\ m.result THEN l.wheel ELSE @])))

\* the translations that follow the stepping, in the order of the calls
ROUTE ==
    <<<<"right_wheel", "right_to_left">>,
      <<"middle_wheel", "right_to_left">>,
      <<"left_wheel", "right_to_left">>,
      <<"reflector", "right_to_left">>,
      <<"left_wheel", "left_to_right">>,
      <<"middle_wheel", "left_to_right">>,
      <<"right_wheel", "left_to_right">>>>

translate(self, stage, pos, oc) ==
    IF stage[2] = "right_to_left"
    THEN right_to_left(self[stage[1]], pos, oc)
    ELSE left_to_right(self[stage[1]], pos, oc)

\* the values of pos after each translation of route, up to the first that panics
RECURSIVE route_signal(_, _, _, _)
route_signal(self, route, pos, oc) ==
    IF route = <<>> THEN <<>>
    ELSE With(translate(self, Head(route), pos, oc), LAMBDA next :
             IF next = None THEN <<>>
             ELSE <<next[1]>> \o route_signal(self, Tail(route), next[1], oc))

\* transform_char that translates first and steps the wheels afterwards
transform_char_step_last(self, chr, oc) ==
    IF is_upper(chr)
    THEN With(chr - 64, LAMBDA code :
         With(right_to_left(self.plugboard, code, oc), LAMBDA first :
             IF first = None
             THEN [machine |-> self, signal |-> <<code>>, out |-> None]
             ELSE With(step_wheels(self), LAMBDA stepped :
                  With(route_signal(self, ROUTE, first[1], oc), LAMBDA rest :
                      [machine |-> stepped,
                       signal  |-> <<code, first[1]>> \o rest,
                       out     |-> IF Len(rest) = Len(ROUTE)
                                   THEN from_u32(rest[Len(rest)] + 64)
                                   ELSE None]))))
    ELSE [machine |-> self, signal |-> <<>>, out |-> Some(chr)]

\* the body of transform_message's loop for one character: the machine after
\* it, the values taken by code and pos, and the character pushed (None: panic)
transform_char(self, chr, oc) ==
    IF is_upper(chr)
    THEN With(chr - 64, LAMBDA code :
         With(right_to_left(self.plugboard, code, oc), LAMBDA first :
             IF first = None
             THEN [machine |-> self, signal |-> <<code>>, out |-> None]
             ELSE With(step_wheels(self), LAMBDA stepped :
                  With(route_signal(stepped, ROUTE, first[1], oc), LAMBDA rest :
                      [machine |-> stepped,
                       signal  |-> <<code, first[1]>> \o rest,
                       out     |-> IF Len(rest) = Len(ROUTE)
                                   THEN from_u32(rest[Len(rest)] + 64)
                                   ELSE None]))))
    ELSE [machine |-> self, signal |-> <<>>, out |-> Some(chr)]

\* transform_message from character i on, with the output and the per-character
\* record built so far
RECURSIVE transform_from(_, _, _, _, _, _)
transform_from(self, message, i, enciphered, trace, oc) ==
    IF i > Len(message)
    THEN [machine |-> self, result |-> Some(enciphered), trace |-> trace]
    ELSE With(transform_char(self, message[i], oc), LAMBDA t :
         With(Append(trace, [chr    |-> message[i],
                             before |-> positions(self),
                             after  |-> positions(t.machine),
                             signal |-> t.signal,
                             out    |-> t.out]), LAMBDA traced :
             IF t.out = None
             THEN [machine |-> t.machine, result |-> None, trace |-> traced]
             ELSE transform_from(t.machine, message, i + 1,
                                 Append(enciphered, t.out[1]), traced, oc)))

\* transform_message that steps a copy of the machine and leaves self as it was
transform_message_on_copy(self, message, oc) ==
    [transform_from(self, message, 1, <<>>, <<>>, oc) EXCEPT !.machine = self]

transform_message(self, message, oc) ==
    transform_from(self, message, 1, <<>>, <<>>, oc)

-----------------------------------------------------------------------------
(* The inputs the calls are made with                                      *)

\* "ABCDEFGHIJKLMNOPQRSTUVWXYZ"
ALPHABET ==
    <<65, 66, 67, 68, 69, 70, 71, 72, 73, 74, 75, 76, 77, 78, 79, 80, 81, 82, 83, 84, 85, 86, 87, 88, 89, 90>>
\* "EKMFLGDQVZNTOWYHXUSPAIBRCJ"
ROTOR_I ==
    <<69, 75, 77, 70, 76, 71, 68, 81, 86, 90, 78, 84, 79, 87, 89, 72, 88, 85, 83, 80, 65, 73, 66, 82, 67, 74>>
\* "AJDKSIRUXBLHWTMCQGZNPYFVOE"
ROTOR_II ==
    <<65, 74, 68, 75, 83, 73, 82, 85, 88, 66, 76, 72, 87, 84, 77, 67, 81, 71, 90, 78, 80, 89, 70, 86, 79, 69>>
\* "BDFHJLCPRTXVZNYEIWGAKMUSQO"
ROTOR_III ==
    <<66, 68, 70, 72, 74, 76, 67, 80, 82, 84, 88, 86, 90, 78, 89, 69, 73, 87, 71, 65, 75, 77, 85, 83, 81, 79>>
\* "YRUHQSLDPXNGOKMIEBFZCWVJAT"
REFLECTOR_B ==
    <<89, 82, 85, 72, 81, 83, 76, 68, 80, 88, 78, 71, 79, 75, 77, 73, 69, 66, 70, 90, 67, 87, 86, 74, 65, 84>>
\* "ZBCDEFGHIJKLMNOPQRSTUVWXYA": a plugboard with the one cable A-Z
PLUGS_AZ ==
    <<90, 66, 67, 68, 69, 70, 71, 72, 73, 74, 75, 76, 77, 78, 79, 80, 81, 82, 83, 84, 85, 86, 87, 88, 89, 65>>
\* "QMJIDO MZWZJFJR"
KNOWN_CIPHERTEXT ==
    <<81, 77, 74, 73, 68, 79, 32, 77, 90, 87, 90, 74, 70, 74, 82>>
\* "ENIGMA REVEALED"
KNOWN_PLAINTEXT ==
    <<69, 78, 73, 71, 77, 65, 32, 82, 69, 86, 69, 65, 76, 69, 68>>
\* "KFLNGMHERWAOUPXZIYVTQBJCSD"
ROTOR_I_RING_1_ROTATED_ONCE ==
    <<75, 70, 76, 78, 71, 77, 72, 69, 82, 87, 65, 79, 85, 80, 88, 90, 73, 89, 86, 84, 81, 66, 74, 67, 83, 68>>
\* "A B!C"
MIXED ==
    <<65, 32, 66, 33, 67>>
\* "@Z[a": the characters next to the range A-Z, and a lowercase letter
EDGES ==
    <<64, 90, 91, 97>>
\* "A B!C@Z[a"
MIXED_EDGES == MIXED \o EDGES

\* the number of transform_message calls in one run
MaxCalls == 2
\* the number of rotate() calls counted on the standalone wheel
MaxRotations == 26
\* the largest position handed to right_to_left and left_to_right
MaxPosition == 27

\* the texts handed to transform_message: ..., "E", "L", "EE", ""
MESSAGES == {KNOWN_CIPHERTEXT, MIXED, EDGES, <<69>>, <<76>>, <<69, 69>>, <<>>}

\* the arguments of EnigmaMachine::new (the wheels are III, II, I and reflector B)
CONSTRUCTIONS ==
    {[plugboard |-> ALPHABET, offsets |-> <<10, 2, 12>>,      settings |-> <<0, 0, 0>>],
     [plugboard |-> PLUGS_AZ, offsets |-> <<21, 4, 16>>,      settings |-> <<1, 25, 65535>>],
     [plugboard |-> ALPHABET, offsets |-> <<51, 26, 65535>>,  settings |-> <<0, 0, 0>>],
     [plugboard |-> PLUGS_AZ, offsets |-> <<0, 1, 24>>,       settings |-> <<0, 0, 0>>]}

\* (right, middle, left) offsets a machine is built anew with
OFFSETS == {<<10, 2, 12>>, <<21, 4, 16>>, <<51, 26, 65535>>}

\* (right, middle, left) trigger lists given to set_triggers
TRIGGERS == {<<<<22>>, <<5>>, <<17>>>>, <<<<1, 16, 22>>, <<1, 3, 5>>, <<13, 31>>>>}

WHEEL_CIPHERS == {ROTOR_I, ROTOR_III}
\* offsets and ring settings given to EnigmaWheel::new, positions given to set_rotor_position
WHEEL_OFFSETS == {0}
WHEEL_SETTINGS == (0..25) \cup {65535}
STEPPING_OFFSETS == {0, 23, 26, 65535}
STEPPING_SETTINGS == {0, 2, 65535}
WHEEL_TRIGGERS == {<<6, 13, 20>>, <<5, 31, 5>>, <<30>>}
WHEEL_MESSAGES == {ALPHABET, MIXED_EDGES}
WHEEL_POSITIONS == 0..MaxPosition

\* "DEFGHIJKLMNOPQRSTUVWXYZABC"
CAESAR ==
    <<68, 69, 70, 71, 72, 73, 74, 75, 76, 77, 78, 79, 80, 81, 82, 83, 84, 85, 86, 87, 88, 89, 90, 65, 66, 67>>
\* "A", U+1F600 (a character outside the Basic Multilingual Plane), "Z"
ASTRAL ==
    <<65, 128512, 90>>
CIPHER_WIRINGS == {CAESAR, ROTOR_I}
CIPHER_OFFSETS == {0, 3, 25, 29, 65535}
CIPHER_MESSAGES == {ALPHABET, MIXED_EDGES, CAESAR, ASTRAL, <<>>}

\* "ABC": a wiring that is too short
SHORT_WIRING ==
    <<65, 66, 67>>
\* "AACDEFGHIJKLMNOPQRSTUVWXYZ": 26 letters, A twice and no B
DUPLICATE_WIRING ==
    <<65, 65, 67, 68, 69, 70, 71, 72, 73, 74, 75, 76, 77, 78, 79, 80, 81, 82, 83, 84, 85, 86, 87, 88, 89, 90>>
\* the wirings, offsets and ring settings given to EnigmaWheel::new and
\* EnigmaMachine::new when any string is given as a wiring
\* "\u{C9}BCDEFGHIJKLMNOPQRSTUVWXYZ": a character of two bytes for A
ACCENTED_WIRING ==
    <<201, 66, 67, 68, 69, 70, 71, 72, 73, 74, 75, 76, 77, 78, 79, 80, 81, 82, 83, 84, 85, 86, 87, 88, 89, 90>>
\* "\u{1F600}BCDEFGHIJKLMNOPQRSTUVWXYZ": a character of four bytes, above U+FFFF, for A
ASTRAL_WIRING ==
    <<128512, 66, 67, 68, 69, 70, 71, 72, 73, 74, 75, 76, 77, 78, 79, 80, 81, 82, 83, 84, 85, 86, 87, 88, 89, 90>>
ANY_WIRINGS ==
    {ROTOR_I, ALPHABET, SHORT_WIRING, DUPLICATE_WIRING, ACCENTED_WIRING, ASTRAL_WIRING}
ANY_OFFSETS == {0, 5}
ANY_SETTINGS == {0, 1}
ANY_MESSAGES == {ALPHABET, MIXED}

\* what a standalone wheel is built with and queried with: a message on a
\* wheel of any ring setting, or a position on a wheel of ring setting 0
WHEEL_SCENARIOS ==
    {[message |-> Some(m), position |-> None, setting |-> s] :
        m \in WHEEL_MESSAGES, s \in WHEEL_SETTINGS}
    \cup {[message |-> None, position |-> Some(p), setting |-> 0] : p \in WHEEL_POSITIONS}

-----------------------------------------------------------------------------
(* The state machine                                                       *)

M == machine[1]
W == wheel[1]

\* the process has aborted: the last call panicked
Aborted ==
    \/ call # None /\ call[1].result = None
    \/ wcall # None /\ wcall[1].ret = None

Init ==
    /\ overflow_checks \in BOOLEAN
    /\ \E c \in CONSTRUCTIONS :
           machine = Some(EnigmaMachine_new(c.plugboard,
                              ROTOR_III, c.offsets[1], c.settings[1],
                              ROTOR_II, c.offsets[2], c.settings[2],
                              ROTOR_I, c.offsets[3], c.settings[3], REFLECTOR_B))
    /\ call = None
    /\ calls = 0
    /\ wheel = None
    /\ winput = [message |-> None, position |-> None]
    /\ wcall = None
    /\ rotations = 0

InitWheel ==
    /\ overflow_checks \in BOOLEAN
    /\ machine = None
    /\ call = None
    /\ calls = 0
    /\ \E c \in WHEEL_CIPHERS, o \in WHEEL_OFFSETS, sc \in WHEEL_SCENARIOS :
           /\ wheel = Some(EnigmaWheel_new(c, o, sc.setting))
           /\ winput = [message |-> sc.message, position |-> sc.position]
    /\ wcall = None
    /\ rotations = 0

InitStepping ==
    /\ overflow_checks \in BOOLEAN
    /\ machine = None
    /\ call = None
    /\ calls = 0
    /\ \E c \in WHEEL_CIPHERS, o \in STEPPING_OFFSETS, s \in STEPPING_SETTINGS :
           wheel = Some(EnigmaWheel_new(c, o, s))
    /\ winput = [message |-> None, position |-> None]
    /\ wcall = None
    /\ rotations = 0

SetTriggers(t) ==
    /\ machine # None /\ ~Aborted
    /\ machine' = Some(EnigmaMachine_set_triggers(M, t[1], t[2], t[3]))
    /\ call' = None
    /\ UNCHANGED <<overflow_checks, calls, wheel, winput, wcall, rotations>>

\* EnigmaMachine has no call that sets the rotor positions: they are put at
\* o by building a machine anew, with the same wirings, ring settings and
\* triggers, as test_full_machine builds one
Rebuild(o) ==
    /\ machine # None /\ ~Aborted
    /\ machine' = Some(EnigmaMachine_set_triggers(
                       EnigmaMachine_new(M.plugboard.cipher,
                           M.right_wheel.cipher, o[1], M.right_wheel.ring_setting,
                           M.middle_wheel.cipher, o[2], M.middle_wheel.ring_setting,
                           M.left_wheel.cipher, o[3], M.left_wheel.ring_setting,
                           M.reflector.cipher),
                       M.right_wheel.triggers, M.middle_wheel.triggers,
                       M.left_wheel.triggers))
    /\ UNCHANGED <<overflow_checks, call, calls, wheel, winput, wcall, rotations>>

\* the last call returned and the rotors are where it left them
Continues ==
    /\ call # None
    /\ call[1].result # None
    /\ call[1].finish = positions(M)

\* the last call returned the text `message` and the rotors are back at the
\* positions that call started from
Rewound(message) ==
    /\ call # None
    /\ call[1].result = Some(message)
    /\ call[1].start = positions(M)

TransformMessage(message) ==
    /\ machine # None /\ ~Aborted
    /\ calls < MaxCalls
    /\ \E t \in {transform_message(M, message, overflow_checks)} :
           /\ machine' = Some(t.machine)
           /\ call' = Some([message |-> message,
                            start   |-> positions(M),
                            finish  |-> positions(t.machine),
                            result  |-> t.result,
                            trace   |-> t.trace,
                            prior   |-> IF Continues
                                        THEN Some([message |-> call[1].message,
                                                   start   |-> call[1].start,
                                                   result  |-> call[1].result[1]])
                                        ELSE None,
                            echo_of |-> IF Rewound(message)
                                        THEN Some(call[1].message) ELSE None])
    /\ calls' = calls + 1
    /\ UNCHANGED <<overflow_checks, wheel, winput, wcall, rotations>>

\* transform_message on the text the last call returned
TransformResult ==
    /\ call # None /\ call[1].result # None
    /\ TransformMessage(call[1].result[1])

Next ==
    \/ \E t \in TRIGGERS : SetTriggers(t)
    \/ \E o \in OFFSETS : Rebuild(o)
    \/ \E message \in MESSAGES : TransformMessage(message)
    \/ TransformResult

\* the rotate() calls made since the position or the triggers of the standalone
\* wheel were last set: how many, from which position, how many returned true
Run ==
    IF wcall = None THEN [calls |-> 0, origin |-> None, signals |-> 0]
    ELSE wcall[1].run

\* Run after the call op, made at the position `at`, has returned ret
RunAfter(op, at, ret) ==
    IF op \in {"set_rotor_position", "set_triggers"}
    THEN [calls |-> 0, origin |-> None, signals |-> 0]
    ELSE IF op = "rotate"
    THEN [calls   |-> Run.calls + 1,
          origin  |-> IF Run.calls = 0 THEN Some(at) ELSE Run.origin,
          signals |-> Run.signals + (IF ret = Some(TRUE) THEN 1 ELSE 0)]
    ELSE Run

\* a call on the standalone wheel; arg is its argument (for rotate, which has
\* none, the position it was called at); echo: the argument is what the last
\* call, the inverse operation, returned
WheelCall(op, arg, ret, echo) ==
    /\ wheel # None /\ ~Aborted
    /\ wcall' = Some([op |-> op, arg |-> arg, ret |-> ret,
                      echo_of |-> IF echo THEN Some(wcall[1].arg) ELSE None,
                      run |-> RunAfter(op, W.rotor_position, ret)])
    /\ UNCHANGED <<overflow_checks, machine, call, calls, winput>>

\* the last call was op and it returned
Returned(op) == wcall # None /\ wcall[1].op = op /\ wcall[1].ret # None

WheelEncipher ==
    /\ winput.message # None
    /\ WheelCall("encipher", winput.message[1],
                 encipher(W, winput.message[1], overflow_checks), FALSE)
    /\ UNCHANGED <<wheel, rotations>>

WheelDecipher ==
    /\ winput.message # None
    /\ WheelCall("decipher", winput.message[1],
                 decipher(W, winput.message[1]), FALSE)
    /\ UNCHANGED <<wheel, rotations>>

\* encipher what decipher returned, decipher what encipher returned
WheelEncipherResult ==
    /\ Returned("decipher")
    /\ WheelCall("encipher", wcall[1].ret[1],
                 encipher(W, wcall[1].ret[1], overflow_checks), TRUE)
    /\ UNCHANGED <<wheel, rotations>>

WheelDecipherResult ==
    /\ Returned("encipher")
    /\ WheelCall("decipher", wcall[1].ret[1], decipher(W, wcall[1].ret[1]), TRUE)
    /\ UNCHANGED <<wheel, rotations>>

WheelRotate ==
    /\ rotations < MaxRotations
    /\ WheelCall("rotate", W.rotor_position, Some(rotate(W).result), FALSE)
    /\ wheel' = Some(rotate(W).wheel)
    /\ rotations' = rotations + 1

WheelSetRotorPosition(p) ==
    /\ WheelCall("set_rotor_position", p, Some(<<>>), FALSE)
    /\ wheel' = Some(set_rotor_position(W, p))
    /\ rotations' = 0

WheelSetTriggers(t) ==
    /\ WheelCall("set_triggers", t, Some(<<>>), FALSE)
    /\ wheel' = Some(set_triggers(W, t))
    /\ UNCHANGED rotations

WheelRightToLeft ==
    /\ winput.position # None
    /\ WheelCall("right_to_left", winput.position[1],
                 right_to_left(W, winput.position[1], overflow_checks), FALSE)
    /\ UNCHANGED <<wheel, rotations>>

WheelLeftToRight ==
    /\ winput.position # None
    /\ WheelCall("left_to_right", winput.position[1],
                 left_to_right(W, winput.position[1], overflow_checks), FALSE)
    /\ UNCHANGED <<wheel, rotations>>

\* send back through the wheel the position the opposite translation returned
WheelRightToLeftResult ==
    /\ Returned("left_to_right")
    /\ WheelCall("right_to_left", wcall[1].ret[1],
                 right_to_left(W, wcall[1].ret[1], overflow_checks), TRUE)
    /\ UNCHANGED <<wheel, rotations>>

WheelLeftToRightResult ==
    /\ Returned("right_to_left")
    /\ WheelCall("left_to_right", wcall[1].ret[1],
                 left_to_right(W, wcall[1].ret[1], overflow_checks), TRUE)
    /\ UNCHANGED <<wheel, rotations>>

NextWheel ==
    \/ WheelEncipher
    \/ WheelDecipher
    \/ WheelEncipherResult
    \/ WheelDecipherResult
    \/ WheelRotate
    \/ WheelRightToLeft
    \/ WheelLeftToRight
    \/ WheelRightToLeftResult
    \/ WheelLeftToRightResult

NextStepping ==
    \/ WheelRotate
    \/ \E p \in STEPPING_OFFSETS : WheelSetRotorPosition(p)
    \/ \E t \in WHEEL_TRIGGERS : WheelSetTriggers(t)

\* an EnigmaMachine and the calls of its interface
Spec == Init /\ [][Next]_vars
\* an EnigmaWheel on its own, enciphering, deciphering and translating positions
SpecWheel == InitWheel /\ [][NextWheel]_vars
\* an EnigmaWheel on its own, stepping
SpecStepping == InitStepping /\ [][NextStepping]_vars

\* a CipherWheel of lib.rs or of cipher.rs, and the message it is used on
InitCipher ==
    /\ overflow_checks \in BOOLEAN
    /\ machine = None
    /\ call = None
    /\ calls = 0
    /\ \/ \E c \in CIPHER_WIRINGS, o \in CIPHER_OFFSETS : wheel = Some(CipherWheel_new(c, o))
       \/ \E c \in CIPHER_WIRINGS : wheel = Some(PlainCipherWheel(c))
    /\ \E m \in CIPHER_MESSAGES : winput = [message |-> Some(m), position |-> None]
    /\ wcall = None
    /\ rotations = 0

\* the standalone wheel is the CipherWheel of lib.rs (it has an offset)
HasOffset == "offset" \in DOMAIN W

CipherEncipher ==
    /\ wheel # None /\ HasOffset
    /\ WheelCall("encipher", winput.message[1],
                 CipherWheel_encipher(W, winput.message[1]), FALSE)
    /\ UNCHANGED <<wheel, rotations>>

CipherDecipher ==
    /\ wheel # None /\ HasOffset
    /\ WheelCall("decipher", winput.message[1],
                 CipherWheel_decipher(W, winput.message[1]), FALSE)
    /\ UNCHANGED <<wheel, rotations>>

\* decipher what encipher returned
CipherDecipherResult ==
    /\ wheel # None /\ HasOffset
    /\ Returned("encipher")
    /\ WheelCall("decipher", wcall[1].ret[1],
                 CipherWheel_decipher(W, wcall[1].ret[1]), TRUE)
    /\ UNCHANGED <<wheel, rotations>>

PlainEncipher ==
    /\ wheel # None /\ ~HasOffset
    /\ WheelCall("encipher", winput.message[1],
                 PlainCipherWheel_encipher(W, winput.message[1]), FALSE)
    /\ UNCHANGED <<wheel, rotations>>

PlainDecipher ==
    /\ wheel # None /\ ~HasOffset
    /\ WheelCall("decipher", winput.message[1],
                 PlainCipherWheel_decipher(W, winput.message[1]), FALSE)
    /\ UNCHANGED <<wheel, rotations>>

PlainDecipherResult ==
    /\ wheel # None /\ ~HasOffset
    /\ Returned("encipher")
    /\ WheelCall("decipher", wcall[1].ret[1],
                 PlainCipherWheel_decipher(W, wcall[1].ret[1]), TRUE)
    /\ UNCHANGED <<wheel, rotations>>

NextCipher ==
    \/ CipherEncipher
    \/ CipherDecipher
    \/ CipherDecipherResult
    \/ PlainEncipher
    \/ PlainDecipher
    \/ PlainDecipherResult

\* a CipherWheel on its own
SpecCipher == InitCipher /\ [][NextCipher]_vars

\* nothing is built yet; the message is the one the wheel or the machine to be
\* built will be used on
InitConstruction ==
    /\ overflow_checks \in BOOLEAN
    /\ machine = None
    /\ call = None
    /\ calls = 0
    /\ wheel = None
    /\ \E m \in ANY_MESSAGES : winput = [message |-> Some(m), position |-> None]
    /\ wcall = None
    /\ rotations = 0

NewWheel(new_cipher, new_offset, new_setting) ==
    /\ wheel = None /\ machine = None
    /\ wheel' = Some(EnigmaWheel_new(new_cipher, new_offset, new_setting))
    /\ UNCHANGED <<overflow_checks, machine, call, calls, winput, wcall, rotations>>

NewMachine(pb_cipher, rw_cipher, rw_offset, rw_setting) ==
    /\ wheel = None /\ machine = None
    /\ machine' = Some(EnigmaMachine_new(pb_cipher, rw_cipher, rw_offset, rw_setting,
                                         ROTOR_II, 2, 0, ROTOR_I, 12, 0, REFLECTOR_B))
    /\ UNCHANGED <<overflow_checks, call, calls, wheel, winput, wcall, rotations>>

\* transform_message on the message chosen for the run
TransformInput ==
    /\ winput.message # None
    /\ TransformMessage(winput.message[1])

NextConstruction ==
    \/ \E c \in ANY_WIRINGS, o \in ANY_OFFSETS, s \in ANY_SETTINGS : NewWheel(c, o, s)
    \/ \E pb \in ANY_WIRINGS, rw \in ANY_WIRINGS, o \in ANY_OFFSETS, s \in ANY_SETTINGS :
           NewMachine(pb, rw, o, s)
    \/ WheelEncipher
    \/ WheelDecipher
    \/ TransformInput

\* a wheel or a machine built with any string as a wiring, then used
SpecConstruction == InitConstruction /\ [][NextConstruction]_vars

\* either an EnigmaMachine or a stepping EnigmaWheel: the two set_triggers
InitTriggers == Init \/ InitStepping
NextTriggers == Next \/ NextStepping
SpecTriggers == InitTriggers /\ [][NextTriggers]_vars

-----------------------------------------------------------------------------
(* The claims                                                              *)

\* the last transform_message call, and the last call on the standalone wheel
C == call[1]
WC == wcall[1]

Letters == 65..90
AllLetters(message) == \A i \in 1..Len(message) : message[i] \in Letters
LettersAndSpaces(message) == \A i \in 1..Len(message) : message[i] \in Letters \cup {32}
Elements(seq) == {seq[i] : i \in 1..Len(seq)}

\* the machine of the repository's test_full_machine, whatever its rotor positions
KnownMachine ==
    /\ M.plugboard.cipher = ALPHABET
    /\ M.right_wheel.cipher = ROTOR_III /\ M.right_wheel.ring_setting = 0
    /\ M.middle_wheel.cipher = ROTOR_II /\ M.middle_wheel.ring_setting = 0
    /\ M.left_wheel.cipher = ROTOR_I /\ M.left_wheel.ring_setting = 0
    /\ M.reflector.cipher = REFLECTOR_B
    /\ M.right_wheel.triggers = <<22>>
    /\ M.middle_wheel.triggers = <<5>>
    /\ M.left_wheel.triggers = <<17>>

\* C1: transform_message on a text of uppercase letters and spaces, the rotors
\* put back at the start positions, then transform_message on the result,
\* returns the original text.
C1_SelfInverse ==
    (call # None /\ C.echo_of # None /\ LettersAndSpaces(C.echo_of[1]))
        => C.result = C.echo_of

\* C2: the machine of test_full_machine, started at (10, 2, 12), transforms
\* "QMJIDO MZWZJFJR" into "ENIGMA REVEALED".
C2_KnownAnswer ==
    (call # None /\ KnownMachine /\ C.start = <<10, 2, 12>>
         /\ C.message = KNOWN_CIPHERTEXT)
        => C.result = Some(KNOWN_PLAINTEXT)

C2_Witness ==
    /\ call # None /\ KnownMachine /\ C.start = <<10, 2, 12>>
    /\ C.message = KNOWN_CIPHERTEXT
    /\ C.result = Some(KNOWN_PLAINTEXT)

\* C3: transform_message is total: on permutation wirings every call returns
\* an output, none aborts.
C3_Total ==
    call # None => C.result # None

\* C4: the character pushed for a letter is the result of a ninth translation,
\* left_to_right on the plugboard, of the value the right wheel returned (stated
\* for the letters whose eight translations returned a position other than 0).
C4_PlugboardOnReturn ==
    call # None =>
        \A i \in 1..Len(C.trace) :
            (C.trace[i].out # None /\ C.trace[i].chr \in Letters
                 /\ C.trace[i].signal[9] # 0)
                => /\ left_to_right(M.plugboard, C.trace[i].signal[9], overflow_checks) # None
                   /\ C.trace[i].out[1] =
                          left_to_right(M.plugboard, C.trace[i].signal[9], overflow_checks)[1] + 64

\* the stepping chain as the claim states it, on (right, middle, left) positions
ChainStep(p, self) ==
    LET right  == (p[1] + 1) % 26
        carry  == right \in Elements(self.right_wheel.triggers)
        middle == IF carry THEN (p[2] + 1) % 26 ELSE p[2]
        carry2 == carry /\ middle \in Elements(self.middle_wheel.triggers)
        left   == IF carry2 THEN (p[3] + 1) % 26 ELSE p[3]
    IN  <<right, middle, left>>

RECURSIVE ChainSteps(_, _, _)
ChainSteps(p, self, n) == IF n = 0 THEN p ELSE ChainSteps(ChainStep(p, self), self, n - 1)

\* C5: for every letter the right wheel advances by 1 mod 26, the middle wheel
\* by 1 iff the right wheel's new position is one of its triggers, the left
\* wheel by 1 iff the middle wheel advanced onto one of its triggers.
C5_SteppingChain ==
    call # None =>
        \A i \in 1..Len(C.trace) :
            C.trace[i].chr \in Letters
                => C.trace[i].after = ChainStep(C.trace[i].before, M)

\* a letter on which all three wheels advanced
C5_Witness ==
    /\ call # None
    /\ \E i \in 1..Len(C.trace) :
           /\ C.trace[i].chr \in Letters
           /\ \A k \in 1..3 : C.trace[i].after[k] = (C.trace[i].before[k] + 1) % 26
    /\ \E i \in 1..Len(C.trace) :
           /\ C.trace[i].chr \in Letters
           /\ C.trace[i].after[2] = C.trace[i].before[2]

\* the number of letters among the first n characters of message
RECURSIVE LettersIn(_, _)
LettersIn(message, n) ==
    IF n = 0 THEN 0
    ELSE LettersIn(message, n - 1) + (IF message[n] \in Letters THEN 1 ELSE 0)

\* C6: a character that is not an uppercase letter is pushed unchanged at its
\* index and moves no rotor; the positions after any character are those
\* reached from the start by as many steps as letters were read.
C6_PassThrough ==
    call # None =>
        /\ Len(C.trace) <= Len(C.message)
        /\ C.result # None =>
               /\ Len(C.trace) = Len(C.message)
               /\ Len(C.result[1]) = Len(C.message)
        /\ \A i \in 1..Len(C.trace) :
               /\ C.trace[i].chr = C.message[i]
               /\ C.trace[i].after = ChainSteps(C.start, M, LettersIn(C.message, i))
               /\ C.message[i] \notin Letters =>
                      /\ C.trace[i].out = Some(C.message[i])
                      /\ C.trace[i].after = C.trace[i].before
                      /\ C.result # None => C.result[1][i] = C.message[i]

\* "A B!C" was transformed: its space and its '!' are in the output
C6_Witness ==
    /\ call # None /\ C.result # None
    /\ C.message = MIXED
    /\ C.start # <<0, 0, 0>>
    /\ C.result[1][2] = 32 /\ C.result[1][4] = 33

\* C7: with the rotor position held fixed, left_to_right(right_to_left(p)) = p
\* for every position p in 1..26.
C7_PositionRoundTrip ==
    (wcall # None /\ WC.op = "left_to_right" /\ WC.echo_of # None
         /\ WC.echo_of[1] \in 1..26)
        => WC.ret = WC.echo_of

\* C8: with the rotor state held fixed, decipher(encipher(L)) = L and
\* encipher(decipher(L)) = L for every uppercase letter L, rotor position and
\* ring setting.
C8_EncipherDecipherInverse ==
    (wcall # None /\ WC.op \in {"encipher", "decipher"} /\ AllLetters(WC.arg))
        => /\ WC.ret # None
           /\ WC.echo_of # None => WC.ret = WC.echo_of

C8_Witness ==
    /\ wcall # None /\ WC.op = "decipher" /\ WC.echo_of = Some(ALPHABET)
    /\ WC.ret = Some(ALPHABET)
    /\ W.rotor_position = 25 /\ W.ring_setting = 25

\* C9: rotate() sets rotor_position to (old position + 1) mod 26 and returns
\* true iff the new position is one of the triggers; with triggers {6, 13, 20}
\* the i-th of 26 calls from position 0 returns true exactly when i mod 7 = 6.
C9_Rotate ==
    (wcall # None /\ WC.op = "rotate")
        => /\ W.rotor_position = (WC.arg + 1) % 26
           /\ WC.ret = Some(W.rotor_position \in Elements(W.triggers))
           /\ (W.triggers = <<6, 13, 20>> /\ rotations <= 26
                   /\ W.rotor_position = rotations % 26)
                  => WC.ret = Some(rotations % 7 = 6)

C9_Witness ==
    /\ wcall # None /\ WC.op = "rotate"
    /\ W.triggers = <<6, 13, 20>>
    /\ rotations = 20 /\ W.rotor_position = 20
    /\ WC.ret = Some(TRUE)

\* the wheels of the machine, and the standalone wheel
Wheels ==
    (IF machine = None THEN {}
     ELSE {M.plugboard, M.right_wheel, M.middle_wheel, M.left_wheel, M.reflector})
    \cup (IF wheel = None THEN {} ELSE {W})

\* C10: after construction with any u16 offset and ring setting and after any
\* sequence of calls, every wheel's rotor_position and ring_setting are in 0..25.
C10_Range ==
    \A w \in Wheels : w.rotor_position \in 0..25 /\ w.ring_setting \in 0..25

\* a wheel built with the ring setting 65535, put at the position 65535 and
\* rotated from there until it stepped from 25 to 0
C10_Witness ==
    /\ wcall # None /\ WC.op = "rotate" /\ WC.arg = 25
    /\ W.rotor_position = 0
    /\ W.ring_setting = 65535 % 26
    /\ rotations = 26 - (65535 % 26)

\* C11: the machine offers set_rotor_positions(right, middle, left), a call that
\* puts the three rotating wheels at the given positions and leaves wirings,
\* ring settings and triggers as they are.
C11_SetRotorPositions ==
    machine # None => "set_rotor_positions" \in EnigmaMachine_methods

\* the machine self with its rotating wheels at the positions p
At(self, p) ==
    [self EXCEPT !.right_wheel.rotor_position  = p[1],
                 !.middle_wheel.rotor_position = p[2],
                 !.left_wheel.rotor_position   = p[3]]

\* C12: transform_message(a) followed, without a reset, by transform_message(b)
\* returns texts whose concatenation is what transform_message(a ++ b) returns
\* on a machine configured alike, both end at the same rotor positions, and
\* the characters of b step the rotors the same way in both.
C12_StatePersists ==
    (call # None /\ C.prior # None /\ C.finish = positions(M)) =>
        \A whole \in {transform_message(At(M, C.prior[1].start),
                                        C.prior[1].message \o C.message, overflow_checks)} :
            /\ (whole.result = None) <=> (C.result = None)
            /\ C.result # None =>
                   /\ whole.result[1] = C.prior[1].result \o C.result[1]
                   /\ positions(whole.machine) = positions(M)
            /\ C.trace = SubSeq(whole.trace, Len(C.prior[1].message) + 1, Len(whole.trace))

\* two calls in a row that each read letters and returned, the middle wheel
\* having stepped during the second
C12_Witness ==
    /\ call # None /\ C.prior # None /\ C.result # None
    /\ C.finish = positions(M)
    /\ LettersIn(C.prior[1].message, Len(C.prior[1].message)) > 0
    /\ LettersIn(C.message, Len(C.message)) > 1
    /\ C.start # C.prior[1].start
    /\ C.finish[2] # C.start[2]

\* C13: the text a call returns has as many characters as the text it was given
\* and, where the input has an uppercase letter, an uppercase letter.
C13_OutputAlphabet ==
    (call # None /\ C.result # None) =>
        /\ Len(C.result[1]) = Len(C.message)
        /\ \A i \in 1..Len(C.message) :
               C.message[i] \in Letters => C.result[1][i] \in Letters

\* the letter the claim gives for the letter chr on the wheel self
EncipherReference(self, chr) ==
    65 + ((self.cipher[(((chr - 65) + 26 - self.rotor_position) % 26) + 1] - 65
               + self.ring_setting) % 26)

\* C14: encipher returns, for the letter of index i, the letter of index
\* (index of wiring[(i + 26 - p) mod 26] + r) mod 26; the wiring
\* EKMFLGDQVZNTOWYHXUSPAIBRCJ with ring setting 1, rotated once from position
\* 0, enciphers A..Z to KFLNGMHERWAOUPXZIYVTQBJCSD.
C14_EncipherReference ==
    (wcall # None /\ WC.op = "encipher") =>
        /\ WC.ret # None
        /\ Len(WC.ret[1]) = Len(WC.arg)
        /\ \A i \in 1..Len(WC.arg) :
               WC.arg[i] \in Letters => WC.ret[1][i] = EncipherReference(W, WC.arg[i])
        /\ (W.cipher = ROTOR_I /\ W.ring_setting = 1 /\ W.rotor_position = 1
                /\ WC.arg = ALPHABET)
               => WC.ret = Some(ROTOR_I_RING_1_ROTATED_ONCE)

\* the wheel of test_encipher_with_shift_and_ring_setting, rotated once, has
\* enciphered the alphabet
C14_Witness ==
    /\ wcall # None /\ WC.op = "encipher" /\ WC.arg = ALPHABET
    /\ W.cipher = ROTOR_I /\ W.ring_setting = 1
    /\ rotations = 1 /\ W.rotor_position = 1
    /\ WC.ret = Some(ROTOR_I_RING_1_ROTATED_ONCE)

\* C15: 26 rotate() calls in a row bring the wheel back to the position they
\* started from, and as many of them return true as there are distinct
\* trigger values configured.
C15_SteppingCycle ==
    (wcall # None /\ WC.op = "rotate" /\ WC.run.calls = 26) =>
        /\ Some(W.rotor_position) = WC.run.origin
        /\ WC.run.signals = Cardinality(Elements(W.triggers))

\* C16: in every state reached by new, set_triggers and transform_message the
\* plugboard and the reflector have rotor_position 0, ring_setting 0 and no
\* triggers.
C16_FixedWheels ==
    machine # None =>
        \A w \in {M.plugboard, M.reflector} :
            w.rotor_position = 0 /\ w.ring_setting = 0 /\ w.triggers = <<>>

\* triggers were set and a call stepped all three rotating wheels of a machine
\* built with ring settings other than 0
C16_Witness ==
    /\ call # None /\ C.result # None
    /\ \A k \in 1..3 : C.finish[k] # C.start[k]
    /\ M.right_wheel.triggers # <<>>
    /\ M.right_wheel.ring_setting # 0
    /\ M.plugboard.rotor_position = 0 /\ M.reflector.rotor_position = 0

\* the trigger lists of the right, middle and left wheels
MachineTriggers(self) ==
    <<self.right_wheel.triggers, self.middle_wheel.triggers, self.left_wheel.triggers>>

\* C17: set_triggers(T) on a wheel leaves it with the triggers T and nothing
\* else changed, and the rotate() that follows returns true exactly when the
\* position it reaches is in T, whatever the triggers were before; a step that
\* changes the triggers of a machine leaves it with one triple of lists it was
\* given, the wirings, ring settings and positions of the three wheels, the
\* plugboard and the reflector being unchanged.
C17_SetTriggersReplaces ==
    [][/\ (wcall' # None /\ wcall'[1].op = "set_triggers")
            => wheel' = Some([W EXCEPT !.triggers = wcall'[1].arg])
       /\ (wcall # None /\ wcall[1].op = "set_triggers" /\ wcall'[1].op = "rotate")
            => wcall'[1].ret = Some(wheel'[1].rotor_position \in Elements(wcall[1].arg))
       /\ (machine # None /\ MachineTriggers(machine'[1]) # MachineTriggers(M))
            => /\ MachineTriggers(machine'[1]) \in TRIGGERS
               /\ \A w \in {"plugboard", "reflector"} : machine'[1][w] = M[w]
               /\ \A w \in {"right_wheel", "middle_wheel", "left_wheel"} :
                      /\ machine'[1][w].cipher = M[w].cipher
                      /\ machine'[1][w].rotor_position = M[w].rotor_position
                      /\ machine'[1][w].ring_setting = M[w].ring_setting
      ]_vars

\* triggers were set on a wheel at position 5, between two rotate() calls, and
\* the rotate() after it moved the wheel to 6, which is not one of them
C17_Witness ==
    /\ wcall # None /\ WC.op = "rotate"
    /\ WC.run.calls = 1 /\ rotations = 6 /\ W.rotor_position = 6
    /\ W.triggers = <<5, 31, 5>>
    /\ WC.ret = Some(FALSE)

\* C18: enciphering the 26 uppercase letters yields each of the 26 uppercase
\* letters exactly once, at every rotor position and ring setting.
C18_Permutation ==
    (wcall # None /\ WC.op = "encipher" /\ Len(WC.arg) = 26
         /\ Elements(WC.arg) = Letters)
        => /\ WC.ret # None
           /\ Len(WC.ret[1]) = 26
           /\ Elements(WC.ret[1]) = Letters

\* the alphabet was enciphered on rotor III at position 13 with ring setting 25
C18_Witness ==
    /\ wcall # None /\ WC.op = "encipher" /\ WC.arg = ALPHABET
    /\ W.cipher = ROTOR_III /\ W.rotor_position = 13 /\ W.ring_setting = 25
    /\ WC.ret # None /\ WC.ret # Some(ROTOR_III)
    /\ Elements(WC.ret[1]) = Letters

\* the offset of the static wheel self (the CipherWheel of cipher.rs has none)
OffsetOf(self) == IF "offset" \in DOMAIN self THEN self.offset ELSE 0

\* C19: on a CipherWheel, encipher returns wiring[(i + offset) mod 26] for the
\* letter of index i, decipher returns the alphabet letter whose index is the
\* letter's index in the wiring minus the offset mod 26, both return every
\* other character unchanged, and decipher(encipher(m)) = m for every m.
C19_CipherWheel ==
    wcall # None =>
        /\ WC.ret # None
        /\ Len(WC.ret[1]) = Len(WC.arg)
        /\ \A i \in 1..Len(WC.arg) :
               IF WC.arg[i] \notin Letters THEN WC.ret[1][i] = WC.arg[i]
               ELSE IF WC.op = "encipher"
               THEN WC.ret[1][i] = W.cipher[((WC.arg[i] - 65 + OffsetOf(W)) % 26) + 1]
               ELSE W.cipher[((WC.ret[1][i] - 65 + OffsetOf(W)) % 26) + 1] = WC.arg[i]
        /\ WC.echo_of # None => WC.ret = WC.echo_of

\* the wiring is the 26 uppercase letters, each once
IsPermutation(cipher) == Len(cipher) = 26 /\ Elements(cipher) = Letters

\* C20: no wheel and no machine comes out of a construction with a wiring that
\* is not a permutation of A-Z, so that no call ever runs on such a wiring.
C20_WiringValidated ==
    /\ wheel # None => IsPermutation(W.cipher)
    /\ machine # None =>
           \A w \in {"plugboard", "right_wheel", "middle_wheel", "left_wheel", "reflector"} :
               IsPermutation(M[w].cipher)

\* C21: every translation a letter goes through on the rotating wheels and the
\* reflector, forward and back, is made at the rotor positions reached by the
\* letter's own step; the first letter of a message is translated with the
\* right wheel at its start position + 1.
C21_StepThenTranslate ==
    call # None =>
        \A i \in 1..Len(C.trace) :
            C.trace[i].chr \in Letters =>
                /\ \A k \in 1..Len(ROUTE) :
                       Len(C.trace[i].signal) >= k + 2 =>
                           Some(C.trace[i].signal[k + 2]) =
                               translate(At(M, C.trace[i].after), ROUTE[k],
                                         C.trace[i].signal[k + 1], overflow_checks)
                /\ LettersIn(C.message, i) = 1 =>
                       C.trace[i].after[1] = (C.start[1] + 1) % 26

\* a letter went through all the translations, and its first translation on
\* the right wheel would have returned another value at the position before
\* its step
C21_Witness ==
    /\ call # None
    /\ \E i \in 1..Len(C.trace) :
           /\ C.trace[i].chr \in Letters
           /\ LettersIn(C.message, i) = 1
           /\ Len(C.trace[i].signal) = Len(ROUTE) + 2
           /\ C.trace[i].after[1] = (C.start[1] + 1) % 26
           /\ Some(C.trace[i].signal[3]) #
                  translate(At(M, C.trace[i].before), ROUTE[1],
                            C.trace[i].signal[2], overflow_checks)

\* C22: every value a letter's signal takes, from the value derived from the
\* letter to the value the last stage returns, is a position in 1..26; none is 0.
C22_SignalRange ==
    call # None =>
        \A i \in 1..Len(C.trace) :
            \A k \in 1..Len(C.trace[i].signal) : C.trace[i].signal[k] \in 1..26

\* C23: a trigger value of 26 or more given to set_triggers behaves like the
\* value mod 26: a rotate() call whose new rotor position equals that residue
\* returns true.
C23_TriggersMod26 ==
    (wcall # None /\ WC.op = "rotate") =>
        \A t \in Elements(W.triggers) :
            (t >= 26 /\ W.rotor_position = t % 26) => WC.ret = Some(TRUE)

\* the letter whose 1-based alphabet position is congruent to n mod 26
LetterAt(n) == 65 + ((n + 25) % 26)

\* the wiring entry right_to_left consulted, recovered from the value r it
\* returned: r = (26 - rotor_position + (entry - 64)) % 26
RightToLeftEntry(self, r) == LetterAt(r + self.rotor_position)

\* the index of the wiring entry left_to_right located, recovered from the value
\* r it returned: r = (26 - rotor_position + (index + 1)) % 26
LeftToRightIndex(self, r) == (r + self.rotor_position + 25) % 26

\* the index of the wiring entry decipher located for a letter, recovered from
\* the letter it returned: letter = 65 + (index + rotor_position) % 26
DecipherIndex(self, letter) == (letter - 65 + 26 - self.rotor_position) % 26

\* C24: on a wheel with ring setting 0, at every rotor position, right_to_left
\* called with the position of a letter L consults the wiring entry that
\* encipher returns for L, and left_to_right called with the position of L
\* locates the wiring entry that decipher locates for L.
C24_SameAlgebra ==
    /\ (wcall # None /\ WC.op = "right_to_left" /\ WC.ret # None
            /\ W.ring_setting = 0 /\ WC.arg \in 1..26) =>
           encipher(W, <<WC.arg + 64>>, overflow_checks)
               = Some(<<RightToLeftEntry(W, WC.ret[1])>>)
    /\ (wcall # None /\ WC.op = "left_to_right" /\ WC.ret # None
            /\ W.ring_setting = 0 /\ WC.arg \in 1..26) =>
           \E d \in {decipher(W, <<WC.arg + 64>>)} :
               d # None /\ DecipherIndex(W, d[1][1]) = LeftToRightIndex(W, WC.ret[1])

\* (right, middle, left) ring settings given to EnigmaMachine::new
RING_SETTINGS == {c.settings : c \in CONSTRUCTIONS} \cup {<<7, 13, 26>>}

\* the machine built like self, with its wirings, rotor positions and
\* triggers, but with the ring settings s given to new
WithRingSettings(self, s) ==
    EnigmaMachine_set_triggers(
        EnigmaMachine_new(self.plugboard.cipher,
            self.right_wheel.cipher, self.right_wheel.rotor_position, s[1],
            self.middle_wheel.cipher, self.middle_wheel.rotor_position, s[2],
            self.left_wheel.cipher, self.left_wheel.rotor_position, s[3],
            self.reflector.cipher),
        self.right_wheel.triggers, self.middle_wheel.triggers,
        self.left_wheel.triggers)

\* C25: a machine that differs from the one the last call was made on only in
\* the ring settings given to new returns the same for the same text (the same
\* text, or no text when the call aborts) and ends at the same rotor positions.
C25_RingSettingsIgnored ==
    (call # None /\ C.finish = positions(M)) =>
        \A s \in RING_SETTINGS :
            \E t \in {transform_message(WithRingSettings(At(M, C.start), s),
                                        C.message, overflow_checks)} :
                /\ t.result = C.result
                /\ positions(t.machine) = C.finish

\* a call on a machine with ring settings other than 0 returned an enciphered
\* text and stepped all three wheels, and the right wheel on its own enciphers
\* differently with ring setting 0
C25_Witness ==
    /\ call # None /\ C.result # None /\ C.finish = positions(M)
    /\ \E i \in 1..Len(C.message) :
           C.message[i] \in Letters /\ C.result[1][i] # C.message[i]
    /\ \A k \in 1..3 : C.finish[k] # C.start[k]
    /\ M.right_wheel.ring_setting # 0
    /\ encipher(M.right_wheel, ALPHABET, overflow_checks)
           # encipher(WithRingSettings(M, <<0, 0, 0>>).right_wheel, ALPHABET,
                      overflow_checks)

\* the reflector wiring maps no letter to itself
NoFixedPoint(cipher) == \A i \in 1..Len(cipher) : cipher[i] # 64 + i

\* C26: on a machine whose wirings are permutations and whose reflector wiring
\* has no fixed point, the character transform_message puts out for an
\* uppercase letter is never that letter, whatever the rotor positions.
C26_NoSelfEncipher ==
    (/\ call # None
     /\ \A w \in {M.plugboard, M.right_wheel, M.middle_wheel, M.left_wheel,
                   M.reflector} : IsPermutation(w.cipher)
     /\ NoFixedPoint(M.reflector.cipher)) =>
        \A i \in 1..Len(C.trace) :
            (C.trace[i].chr \in Letters /\ C.trace[i].out # None) =>
                C.trace[i].out[1] # C.trace[i].chr

=============================================================================
